---------------------------- MODULE Spec2Model ----------------------------
(***************************************************************************)
(* Model of the 3-DOF anthropomorphic arm kinematics repository:           *)
(*   - ik_antropomorphic_arm.py      inverse_kinematics (closed form)      *)
(*   - generate_matrices.py          DHMatrixGenerator (chain builder)     *)
(*   - antropomorphic_end_effector_mover.py   the ROS node using the IK    *)
(*                                                                         *)
(* Numbers.  The Python code works on floats.  Here lengths are integers   *)
(* in units of 1/LenScale, angles are integers in degrees (Pi = 180), and  *)
(* values of sin/cos are integers in units of 1/TrigScale, read from a     *)
(* cosine table with a step of half a degree.  Results are rounded to the  *)
(* nearest unit, so an angle the floats put within half a degree of 0 or   *)
(* of a joint limit may fall on it here.  Zero has no sign: 0.0 == -0.0 in *)
(* Python and both fail "> 0"; np.arctan2 is modelled for +0.0 only.       *)
(***************************************************************************)
EXTENDS Integers, Sequences, FiniteSets, TLC

VARIABLES
    \* ---- inverse_kinematics, called on one target with and without limits
    ik_target,      \* <<px, py, pz>> of the calls
    ik_res,         \* [BOOLEAN -> result or NoResult], by joint_limits
    \* ---- DHMatrixGenerator
    matrices,       \* self.matrices: name -> NoneVal or a matrix
    simplified_matrices, \* self.simplified_matrices
    dh_prev,        \* self.matrices as it was before the last call
    dh_last,        \* the last call: [op, arg, raised]
    dh_calls,       \* number of calls made (bounded)
    \* ---- AntropomorphicEndEffectorMover
    init_pc,        \* position of __init__ (main thread)
    current_goal,   \* self.current_goal
    current_position, \* self.current_position
    elbow_config,   \* self.elbow_config
    goal_sub,       \* goal subscriber registered
    pos_sub,        \* position subscriber registered
    goal_queue,     \* goal messages waiting for goal_callback
    pos_queue,      \* position messages waiting for position_callback
    goal_seen,      \* a goal message was published while __init__ waits
    pos_seen,       \* a position message was published while __init__ waits
    gcb,            \* goal_callback's thread: [pc, msg, ik, sent]
    pcb,            \* position_callback's thread: [pc, msg]
    handled,        \* log: one record per goal message handled
    commands,       \* joint commands sent to JointMover, in order
    cb_errors,      \* kinds of exception raised inside callbacks
    published,      \* messages published so far, by topic
    goal_marker_index,   \* self.goal_marker_index
    actual_marker_index  \* self.actual_marker_index

ik_vars == <<ik_target, ik_res>>
dh_vars == <<matrices, simplified_matrices, dh_prev, dh_last, dh_calls>>
mv_vars == <<init_pc, current_goal, current_position, elbow_config, goal_sub,
             pos_sub, goal_queue, pos_queue, goal_seen, pos_seen, gcb, pcb,
             handled, commands, cb_errors, published, goal_marker_index,
             actual_marker_index>>
vars == <<ik_vars, dh_vars, mv_vars>>

---------------------------------------------------------------------------
(* Bounds of the model *)

\* how many of CoordValues are used as px, py, pz
MaxCoordIdx == 8
\* longest kinematic chain (chain_length) the generator is used with
MaxChain == 3
\* number of DHMatrixGenerator calls in one run
MaxDHCalls == 4
\* messages published on /ee_pose_commands and on /end_effector_real_pose
MaxGoalMsgs == 2
MaxPosMsgs == 2

---------------------------------------------------------------------------
(* Fixed-point numerics standing for numpy's float functions *)

LenScale == 100
TrigScale == 1000
Pi == 180

Abs(x) == IF x < 0 THEN -x ELSE x

\* cos(i/2 degrees) * TrigScale, i = 0..180, at index i+1
CosHalfDeg ==
    << 1000, 1000, 1000, 1000, 999, 999, 999, 998, 998, 997, 996, 995, 995, 994, 993,
       991, 990, 989, 988, 986, 985, 983, 982, 980, 978, 976, 974, 972, 970, 968,
       966, 964, 961, 959, 956, 954, 951, 948, 946, 943, 940, 937, 934, 930, 927,
       924, 921, 917, 914, 910, 906, 903, 899, 895, 891, 887, 883, 879, 875, 870,
       866, 862, 857, 853, 848, 843, 839, 834, 829, 824, 819, 814, 809, 804, 799,
       793, 788, 783, 777, 772, 766, 760, 755, 749, 743, 737, 731, 725, 719, 713,
       707, 701, 695, 688, 682, 676, 669, 663, 656, 649, 643, 636, 629, 623, 616,
       609, 602, 595, 588, 581, 574, 566, 559, 552, 545, 537, 530, 522, 515, 508,
       500, 492, 485, 477, 469, 462, 454, 446, 438, 431, 423, 415, 407, 399, 391,
       383, 375, 367, 358, 350, 342, 334, 326, 317, 309, 301, 292, 284, 276, 267,
       259, 250, 242, 233, 225, 216, 208, 199, 191, 182, 174, 165, 156, 148, 139,
       131, 122, 113, 105, 96, 87, 78, 70, 61, 52, 44, 35, 26, 17, 9,
       0 >>

\* np.cos(theta) for theta in -Pi..Pi degrees
NpCos(theta) ==
    LET d == Abs(theta)
    IN  IF 2 * d <= Pi THEN CosHalfDeg[2 * d + 1]
        ELSE -CosHalfDeg[2 * (Pi - d) + 1]

\* np.cos(theta/2) for theta in -Pi..Pi degrees
NpCosHalf(theta) == CosHalfDeg[Abs(theta) + 1]

\* np.sin(theta) for theta in -Pi..Pi degrees
NpSin(theta) ==
    LET d == Abs(theta)
        s == CosHalfDeg[Abs(Pi - 2 * d) + 1]
    IN  IF theta < 0 THEN -s ELSE s

\* np.sqrt(n), rounded to the nearest integer; bound >= sqrt(n)
NpSqrt(n, bound) ==
    LET r == CHOOSE k \in 0..bound : k * k <= n /\ n < (k + 1) * (k + 1)
    IN  IF n - r * r > (r + 1) * (r + 1) - n THEN r + 1 ELSE r

\* np.arccos(num/den) in degrees 0..Pi, for |num| <= den, to the nearest degree
\* (arccos(-x) = Pi - arccos(x), so that arccos(1) = 0 and arccos(-1) = Pi)
NpArccos(num, den) ==
    LET v(d) == NpCos(d) * den
        c == Abs(num) * TrigScale
        hi == CHOOSE d \in 0..Pi : v(d) <= c /\ (d = 0 \/ v(d - 1) > c)
        a == IF hi = 0 THEN 0
             ELSE IF v(hi - 1) - c <= c - v(hi) THEN hi - 1 ELSE hi
    IN  IF num < 0 THEN Pi - a ELSE a

\* np.arctan2(y, x) in degrees -Pi..Pi, to the nearest degree
NpArctan2(y, x) ==
    LET ay == Abs(y)
        ax == Abs(x)
        f(d) == ay * NpCos(d) - ax * NpSin(d)
        half == Pi \div 2
        lo == CHOOSE d \in 0..half : f(d) >= 0 /\ (d = half \/ f(d + 1) < 0)
        a == IF lo = half THEN half
             ELSE IF f(lo) <= -f(lo + 1) THEN lo ELSE lo + 1
    IN  IF x = 0 /\ y = 0 THEN 0
        ELSE IF x >= 0 THEN (IF y >= 0 THEN a ELSE -a)
        ELSE (IF y >= 0 THEN Pi - a ELSE a - Pi)

---------------------------------------------------------------------------
(* ik_antropomorphic_arm.py: inverse_kinematics *)

theta2_min == -45
theta2_max == 135
theta3_min == -135
theta3_max == 135

\* the result of a call, or no call made yet
NoResult == [called |-> FALSE,
             res |-> [valid |-> <<>>, invalid |-> <<>>, unreachable |-> FALSE]]
Returned(results) == [called |-> TRUE, res |-> results]

\* results = {'valid': [], 'invalid': [], 'unreachable': False}
EmptyResults == [valid |-> <<>>, invalid |-> <<>>, unreachable |-> FALSE]

\* A = A_sign * np.sqrt(px**2 + py**2)
BranchA(px, py, A_sign) == A_sign * NpSqrt(px * px + py * py, Abs(px) + Abs(py))

\* denominator of cos_theta3: the value is CosTheta3(A, B) / CosDen
CosDen == 2 * LenScale * LenScale

\* cos_theta3 = (A**2 + B**2 - 2)/2, as a numerator over CosDen
CosTheta3Mut(A, B) == A * LenScale + B * B - 2 * LenScale * LenScale
CosTheta3(A, B) == A * A + B * B - 2 * LenScale * LenScale

\* abs(cos_theta3) > 1
BranchUnreachable(px, py, pz, A_sign) ==
    Abs(CosTheta3(BranchA(px, py, A_sign), pz)) > CosDen

\* theta1 = arctan2(py, px), moved by pi for the A- case
Theta1(px, py, A_sign) ==
    LET theta1 == NpArctan2(py, px)
    IN  IF A_sign < 0
        THEN (IF theta1 < 0 THEN theta1 + Pi ELSE theta1 - Pi)
        ELSE theta1

\* [np.arccos(cos_theta3), -np.arccos(cos_theta3)]
ElbowSolutions(cos_theta3) ==
    <<NpArccos(cos_theta3, CosDen), -NpArccos(cos_theta3, CosDen)>>

\* C = 2 cos^2(theta3/2); D = sin(theta3); theta2 = arctan2(B*C - A*D, A*C + B*D)
Theta2(A, B, theta3) ==
    LET C == (2 * NpCosHalf(theta3) * NpCosHalf(theta3) + TrigScale \div 2)
                \div TrigScale
        D == NpSin(theta3)
    IN  NpArctan2(B * C - A * D, A * C + B * D)

\* config = "plus-" if theta2 > 0 else "minus-"; += "plus" if theta3 > 0 else "minus"
ConfigMut(theta2, theta3) ==
    (IF theta2 >= 0 THEN "plus-" ELSE "minus-")
        \o (IF theta3 >= 0 THEN "plus" ELSE "minus")
Config(theta2, theta3) ==
    (IF theta2 > 0 THEN "plus-" ELSE "minus-")
        \o (IF theta3 > 0 THEN "plus" ELSE "minus")

theta2_valid(theta2) == theta2_min <= theta2 /\ theta2 <= theta2_max
theta3_valid(theta3) == theta3_min <= theta3 /\ theta3 <= theta3_max

\* candidate_solution = (theta1, theta2, theta3, config)
Candidate(px, py, pz, A_sign, theta3) ==
    LET A == BranchA(px, py, A_sign)
        theta2 == Theta2(A, pz, theta3)
    IN  [theta1 |-> Theta1(px, py, A_sign), theta2 |-> theta2,
         theta3 |-> theta3, config |-> Config(theta2, theta3)]

\* the candidates one pass of the A_sign loop builds (none when it continues)
BranchCandidates(px, py, pz, A_sign) ==
    IF BranchUnreachable(px, py, pz, A_sign) THEN <<>>
    ELSE LET elbows == ElbowSolutions(CosTheta3(BranchA(px, py, A_sign), pz))
         IN  [i \in 1..Len(elbows) |-> Candidate(px, py, pz, A_sign, elbows[i])]

\* the if joint_limits: ... else: ... at the end of the elbow loop
ClassifyMut(results, c, joint_limits) ==
    IF joint_limits
    THEN IF theta2_min < c.theta2 /\ c.theta2 < theta2_max
             /\ theta3_min < c.theta3 /\ c.theta3 < theta3_max
         THEN [results EXCEPT !.valid = Append(@, c)]
         ELSE [results EXCEPT !.invalid = Append(@, c)]
    ELSE [results EXCEPT !.valid = Append(@, c)]
Classify(results, c, joint_limits) ==
    IF joint_limits
    THEN IF theta2_valid(c.theta2) /\ theta3_valid(c.theta3)
         THEN [results EXCEPT !.valid = Append(@, c)]
         ELSE [results EXCEPT !.invalid = Append(@, c)]
    ELSE [results EXCEPT !.valid = Append(@, c)]

RECURSIVE ClassifyAll(_, _, _)
ClassifyAll(results, cands, joint_limits) ==
    IF cands = <<>> THEN results
    ELSE ClassifyAll(Classify(results, Head(cands), joint_limits),
                     Tail(cands), joint_limits)

\* one pass of "for A_sign in [1, -1]"
BranchMut(results, px, py, pz, A_sign, joint_limits) ==
    IF BranchUnreachable(px, py, pz, A_sign)
    THEN [results EXCEPT !.unreachable = TRUE]
    ELSE IF joint_limits
         THEN ClassifyAll(results, BranchCandidates(px, py, pz, A_sign), joint_limits)
         ELSE ClassifyAll(results,
                  SelectSeq(BranchCandidates(px, py, pz, A_sign),
                            LAMBDA c : theta2_valid(c.theta2) /\ theta3_valid(c.theta3)),
                  joint_limits)
Branch(results, px, py, pz, A_sign, joint_limits) ==
    IF BranchUnreachable(px, py, pz, A_sign)
    THEN [results EXCEPT !.unreachable = TRUE]
    ELSE ClassifyAll(results, BranchCandidates(px, py, pz, A_sign), joint_limits)

inverse_kinematics(px, py, pz, joint_limits) ==
    Branch(Branch(EmptyResults, px, py, pz, 1, joint_limits),
           px, py, pz, -1, joint_limits)

\* the coordinates the model draws px, py, pz from (units of 1/LenScale)
CoordValues == <<0, 200, 100, 50, 60, 70, 300, 76, -100, 141, -70>>

Min(a, b) == IF a < b THEN a ELSE b

Coords == {CoordValues[i] : i \in 1..Min(MaxCoordIdx, Len(CoordValues))}

Targets == Coords \X Coords \X Coords

NoCalls == [jl \in BOOLEAN |-> NoResult]

\* results = inverse_kinematics(px, py, pz, joint_limits)
IKCall(joint_limits) ==
    /\ ~ik_res[joint_limits].called
    /\ ik_res' = [ik_res EXCEPT ![joint_limits] =
            Returned(inverse_kinematics(ik_target[1], ik_target[2], ik_target[3],
                                        joint_limits))]
    /\ UNCHANGED <<ik_target, dh_vars, mv_vars>>


IKNext == \E joint_limits \in BOOLEAN : IKCall(joint_limits)

---------------------------------------------------------------------------
(* generate_matrices.py: DHMatrixGenerator *)

\* None: no matrix stored (a matrix is a word of at least one factor)
NoneVal == <<>>

\* f"A{i}{j}"
MatrixName(i, j) == "A" \o ToString(i) \o ToString(j)

\* generate_chain(chain_length): A{i}{i+1} for each link, then A0{i} for i = 2..n
generate_chain(chain_length) ==
    [i \in 1..chain_length |-> MatrixName(i - 1, i)]
        \o [i \in 1..(chain_length - 1) |-> MatrixName(0, i + 1)]

Range(s) == {s[i] : i \in 1..Len(s)}

\* params.get(key, default)
ParamGet(params, key, default) ==
    IF key \in DOMAIN params THEN params[key] ELSE default

\* self.generic_matrix.subs(subs_dict): the generic DH matrix with alpha_i, r_i,
\* d_i, theta_i replaced; a matrix is the word of its factors, and this one has
\* a single factor.  The default symbols are named from matrix_name[2:].
LinkMatrix(matrix_name, params) ==
    LET suffix == SubSeq(matrix_name, 3, Len(matrix_name))
    IN  << [alpha |-> ParamGet(params, "alpha", "alpha_" \o suffix),
            r     |-> ParamGet(params, "r", "r_" \o suffix),
            d     |-> ParamGet(params, "d", "d_" \o suffix),
            theta |-> ParamGet(params, "theta", "theta_" \o suffix)] >>

\* a * b of two matrices (not commutative)
MatMul(a, b) == a \o b

\* reduce(lambda a, b: a * b, matrices_to_multiply), for a non-empty list
RECURSIVE ReduceMulMut(_)
ReduceMulMut(ms) ==
    IF Len(ms) = 1 THEN ms[1]
    ELSE MatMul(ms[Len(ms)], ReduceMulMut(SubSeq(ms, 1, Len(ms) - 1)))
RECURSIVE ReduceMul(_)
ReduceMul(ms) ==
    IF Len(ms) = 1 THEN ms[1]
    ELSE MatMul(ReduceMul(SubSeq(ms, 1, Len(ms) - 1)), ms[Len(ms)])

\* create_matrices: every name is (re)set to None in both dictionaries
CreateIn(dict, matrix_names) ==
    [name \in DOMAIN dict \cup Range(matrix_names) |->
        IF name \in Range(matrix_names) THEN NoneVal ELSE dict[name]]

\* the loop of apply_substitutions over substitutions.items(), in dict order;
\* the raise leaves what earlier iterations stored
RECURSIVE ApplyLoop(_, _)
ApplyLoop(m, substitutions) ==
    IF substitutions = <<>> THEN [m |-> m, raised |-> FALSE]
    ELSE LET matrix_name == Head(substitutions).name
             params == Head(substitutions).params
         IN  IF matrix_name \notin DOMAIN m
             THEN [m |-> m, raised |-> TRUE]
             ELSE ApplyLoop([m EXCEPT ![matrix_name] = LinkMatrix(matrix_name, params)],
                            Tail(substitutions))

\* matrices_to_multiply for A0{i}: the links A{j}{j+1}, j < i, that are declared
\* and not None, in order of j; the others are left out
RECURSIVE MatricesToMultiply(_, _, _)
MatricesToMultiply(m, j, i) ==
    IF j >= i THEN <<>>
    ELSE LET individual_name == MatrixName(j, j + 1)
         IN  (IF individual_name \in DOMAIN m /\ m[individual_name] # NoneVal
              THEN <<m[individual_name]>> ELSE <<>>)
             \o MatricesToMultiply(m, j + 1, i)

\* the loop "for i in range(2, chain_length+1)" of build_compound_matrices
RECURSIVE BuildLoop(_, _, _)
BuildLoop(m, i, chain_length) ==
    IF i > chain_length THEN m
    ELSE LET matrix_name == MatrixName(0, i)
             matrices_to_multiply == MatricesToMultiply(m, 0, i)
         IN  BuildLoop(IF matrix_name \in DOMAIN m /\ matrices_to_multiply # <<>>
                       THEN [m EXCEPT ![matrix_name] = ReduceMul(matrices_to_multiply)]
                       ELSE m,
                       i + 1, chain_length)

\* trigsimp(matrix): a simplified form of the same matrix
Trigsimp(matrix) == <<"trigsimp", matrix>>

\* the loop of simplify_matrices
SimplifyIn(simplified, m, matrix_names) ==
    [name \in DOMAIN simplified |->
        IF name \in Range(matrix_names) /\ name \in DOMAIN m /\ m[name] # NoneVal
        THEN Trigsimp(m[name]) ELSE simplified[name]]

\* the substitutions of main(): parameters by link name
MainParams(matrix_name) ==
    IF matrix_name = "A01"
    THEN [alpha |-> "pi/2", r |-> "0.0", d |-> "0.0"]
    ELSE [alpha |-> "0.0", d |-> "0.0"]

\* an empty parameter dict: every parameter defaults to its symbol
NoParams(matrix_name) == [k \in {} |-> ""]

Reverse(s) == [i \in 1..Len(s) |-> s[Len(s) + 1 - i]]

\* the keys of a substitutions dict: the links A01 .. A(n-1,n) of a chain, in
\* chain order or in the reverse order
NameLists ==
    UNION {{[i \in 1..n |-> MatrixName(i - 1, i)],
            Reverse([i \in 1..n |-> MatrixName(i - 1, i)])} : n \in 1..MaxChain}

\* the lists given to create_matrices: generate_chain(n), and for the longest
\* chain also that list with one name left out
ChainLists ==
    {generate_chain(n) : n \in 1..MaxChain}
        \cup {SelectSeq(generate_chain(MaxChain), LAMBDA x : x # out) :
                  out \in Range(generate_chain(MaxChain))}

NoCall == [op |-> "none", names |-> <<>>, n |-> 0, raised |-> FALSE]

EmptyDict == [name \in {} |-> NoneVal]

create_matrices(matrix_names) ==
    /\ dh_calls < MaxDHCalls
    /\ matrices' = CreateIn(matrices, matrix_names)
    /\ simplified_matrices' = CreateIn(simplified_matrices, matrix_names)
    /\ dh_prev' = matrices
    /\ dh_last' = [op |-> "create", names |-> matrix_names, n |-> 0, raised |-> FALSE]
    /\ dh_calls' = dh_calls + 1
    /\ UNCHANGED <<ik_vars, mv_vars>>

\* substitutions: the names in dict order, each with its parameters
apply_substitutions(names, table) ==
    LET substitutions ==
            [i \in 1..Len(names) |->
                [name |-> names[i],
                 params |-> IF table = "main" THEN MainParams(names[i])
                            ELSE NoParams(names[i])]]
        out == ApplyLoop(matrices, substitutions)
    IN  /\ dh_calls < MaxDHCalls
        /\ matrices' = out.m
        /\ dh_prev' = matrices
        /\ dh_last' = [op |-> "apply", names |-> names, n |-> 0, raised |-> out.raised]
        /\ dh_calls' = dh_calls + 1
        /\ UNCHANGED <<simplified_matrices, ik_vars, mv_vars>>

\* never raises: a missing name or link is skipped
build_compound_matrices(chain_length) ==
    /\ dh_calls < MaxDHCalls
    /\ matrices' = BuildLoop(matrices, 2, chain_length)
    /\ dh_prev' = matrices
    /\ dh_last' = [op |-> "build", names |-> <<>>, n |-> chain_length, raised |-> FALSE]
    /\ dh_calls' = dh_calls + 1
    /\ UNCHANGED <<simplified_matrices, ik_vars, mv_vars>>

simplify_matrices(matrix_names) ==
    /\ dh_calls < MaxDHCalls
    /\ simplified_matrices' = SimplifyIn(simplified_matrices, matrices, matrix_names)
    /\ dh_prev' = matrices
    /\ dh_last' = [op |-> "simplify", names |-> matrix_names, n |-> 0, raised |-> FALSE]
    /\ dh_calls' = dh_calls + 1
    /\ UNCHANGED <<matrices, ik_vars, mv_vars>>

DHNext ==
    \/ \E matrix_names \in ChainLists : create_matrices(matrix_names)
    \/ \E names \in NameLists, table \in {"main", "none"} : apply_substitutions(names, table)
    \/ \E chain_length \in 1..MaxChain : build_compound_matrices(chain_length)
    \/ \E n \in 1..MaxChain : simplify_matrices(generate_chain(n))


---------------------------------------------------------------------------
(* antropomorphic_end_effector_mover.py: AntropomorphicEndEffectorMover     *)
(* __init__ runs in the main thread; rospy runs the callbacks of each       *)
(* subscriber in that topic's receiving thread, from the moment             *)
(* rospy.Subscriber returns.  A step is one statement (or a run of          *)
(* statements that touch no attribute another thread writes).  Each topic   *)
(* has one publisher, so the callbacks of one topic run one after another.  *)

\* an attribute of self: not yet assigned, None, or a value
Unassigned == [tag |-> "unassigned", val |-> <<0, 0, 0>>]
PyNone == [tag |-> "none", val |-> <<0, 0, 0>>]
Value(v) == [tag |-> "set", val |-> v]

\* EndEffector messages: ee_xy_theta (x, y, z) and elbow_policy.data
GoalTargets == {<<50, 60, 70>>, <<300, 0, 300>>, <<200, 0, 0>>}
Policies == {"plus-plus", "minus-minus"}
GoalMsgs == [ee_xy_theta : GoalTargets, elbow_policy : Policies]
\* Vector3 messages
PosMsgs == {<<50, 60, 70>>}

NoMsg == [ee_xy_theta |-> <<0, 0, 0>>, elbow_policy |-> ""]
GcbIdle == [pc |-> "idle", msg |-> NoMsg, ik |-> EmptyResults]
PcbIdle == [pc |-> "idle"]

\* ---- __init__ and setup_subscribers (main thread)

\* lines 13-21: init_node, MarkerBasics, the two marker indices, JointMover
InitNode ==
    /\ init_pc = "l13"
    /\ init_pc' = "l36"
    /\ goal_marker_index' = 0
    /\ actual_marker_index' = 0
    /\ UNCHANGED <<current_goal, current_position, elbow_config, goal_sub, pos_sub,
                   goal_queue, pos_queue, goal_seen, pos_seen, gcb, pcb, handled,
                   commands, cb_errors, published, ik_vars, dh_vars>>

\* line 36: rospy.Subscriber("/ee_pose_commands", EndEffector, self.goal_callback)
SubscribeGoal ==
    /\ init_pc = "l36"
    /\ init_pc' = "l39"
    /\ goal_sub' = TRUE
    /\ UNCHANGED <<current_goal, current_position, elbow_config, pos_sub,
                   goal_queue, pos_queue, goal_seen, pos_seen, gcb, pcb, handled,
                   commands, cb_errors, published, goal_marker_index,
                   actual_marker_index, ik_vars, dh_vars>>

\* line 39: rospy.Subscriber("/end_effector_real_pose", Vector3, self.position_callback)
\* and line 43 starts to wait for a message on /ee_pose_commands
SubscribePosition ==
    /\ init_pc = "l39"
    /\ init_pc' = "l43"
    /\ pos_sub' = TRUE
    /\ goal_seen' = FALSE
    /\ UNCHANGED <<current_goal, current_position, elbow_config, goal_sub,
                   goal_queue, pos_queue, pos_seen, gcb, pcb, handled,
                   commands, cb_errors, published, goal_marker_index,
                   actual_marker_index, ik_vars, dh_vars>>

\* line 43 returns: rospy.wait_for_message("/ee_pose_commands", EndEffector);
\* line 44 starts to wait for a message on /end_effector_real_pose
WaitGoalMessage ==
    /\ init_pc = "l43"
    /\ goal_seen
    /\ init_pc' = "l44"
    /\ pos_seen' = FALSE
    /\ UNCHANGED <<current_goal, current_position, elbow_config, goal_sub, pos_sub,
                   goal_queue, pos_queue, goal_seen, gcb, pcb, handled,
                   commands, cb_errors, published, goal_marker_index,
                   actual_marker_index, ik_vars, dh_vars>>

\* line 44 returns: rospy.wait_for_message("/end_effector_real_pose", Vector3)
WaitPositionMessage ==
    /\ init_pc = "l44"
    /\ pos_seen
    /\ init_pc' = "l27"
    /\ UNCHANGED <<current_goal, current_position, elbow_config, goal_sub, pos_sub,
                   goal_queue, pos_queue, goal_seen, pos_seen, gcb, pcb, handled,
                   commands, cb_errors, published, goal_marker_index,
                   actual_marker_index, ik_vars, dh_vars>>

\* line 27: self.current_goal = None
InitCurrentGoal ==
    /\ init_pc = "l27"
    /\ init_pc' = "l28"
    /\ current_goal' = PyNone
    /\ UNCHANGED <<current_position, elbow_config, goal_sub, pos_sub,
                   goal_queue, pos_queue, goal_seen, pos_seen, gcb, pcb, handled,
                   commands, cb_errors, published, goal_marker_index,
                   actual_marker_index, ik_vars, dh_vars>>

\* line 28: self.current_position = None
InitCurrentPosition ==
    /\ init_pc = "l28"
    /\ init_pc' = "l29"
    /\ current_position' = PyNone
    /\ UNCHANGED <<current_goal, elbow_config, goal_sub, pos_sub,
                   goal_queue, pos_queue, goal_seen, pos_seen, gcb, pcb, handled,
                   commands, cb_errors, published, goal_marker_index,
                   actual_marker_index, ik_vars, dh_vars>>

\* line 29: self.elbow_config = "plus"
InitElbowConfig ==
    /\ init_pc = "l29"
    /\ init_pc' = "ready"
    /\ elbow_config' = "plus"
    /\ UNCHANGED <<current_goal, current_position, goal_sub, pos_sub,
                   goal_queue, pos_queue, goal_seen, pos_seen, gcb, pcb, handled,
                   commands, cb_errors, published, goal_marker_index,
                   actual_marker_index, ik_vars, dh_vars>>

\* ---- the publishers (outside the node)

\* a message on /ee_pose_commands: queued for goal_callback once subscribed,
\* and seen by a wait_for_message in progress
PublishGoal(msg) ==
    /\ published.goal < MaxGoalMsgs
    /\ published' = [published EXCEPT !.goal = @ + 1]
    /\ goal_queue' = IF goal_sub THEN Append(goal_queue, msg) ELSE goal_queue
    /\ goal_seen' = (goal_seen \/ init_pc = "l43")
    /\ UNCHANGED <<init_pc, current_goal, current_position, elbow_config, goal_sub,
                   pos_sub, pos_queue, pos_seen, gcb, pcb, handled,
                   commands, cb_errors, goal_marker_index,
                   actual_marker_index, ik_vars, dh_vars>>

PublishPosition(msg) ==
    /\ published.pos < MaxPosMsgs
    /\ published' = [published EXCEPT !.pos = @ + 1]
    /\ pos_queue' = IF pos_sub THEN Append(pos_queue, msg) ELSE pos_queue
    /\ pos_seen' = (pos_seen \/ init_pc = "l44")
    /\ UNCHANGED <<init_pc, current_goal, current_position, elbow_config, goal_sub,
                   pos_sub, goal_queue, goal_seen, gcb, pcb, handled,
                   commands, cb_errors, goal_marker_index,
                   actual_marker_index, ik_vars, dh_vars>>

\* ---- goal_callback (the /ee_pose_commands thread)

\* line 49: self.current_goal = (msg.ee_xy_theta.x, .y, .z)
GoalCallbackSetGoal ==
    /\ gcb.pc = "idle"
    /\ goal_queue # <<>>
    /\ goal_queue' = Tail(goal_queue)
    /\ current_goal' = Value(Head(goal_queue).ee_xy_theta)
    /\ gcb' = [pc |-> "l50", msg |-> Head(goal_queue), ik |-> EmptyResults]
    /\ UNCHANGED <<init_pc, current_position, elbow_config, goal_sub, pos_sub,
                   pos_queue, goal_seen, pos_seen, pcb, handled,
                   commands, cb_errors, published, goal_marker_index,
                   actual_marker_index, ik_vars, dh_vars>>

\* line 50: self.elbow_config = msg.elbow_policy.data
GoalCallbackSetPolicy ==
    /\ gcb.pc = "l50"
    /\ elbow_config' = gcb.msg.elbow_policy
    /\ gcb' = [gcb EXCEPT !.pc = "l53"]
    /\ UNCHANGED <<init_pc, current_goal, current_position, goal_sub, pos_sub,
                   goal_queue, pos_queue, goal_seen, pos_seen, pcb, handled,
                   commands, cb_errors, published, goal_marker_index,
                   actual_marker_index, ik_vars, dh_vars>>

\* what handling one message did
Handled(msg, ik, ran_ik, sent, warned, error) ==
    [msg |-> msg, ik |-> ik, ran_ik |-> ran_ik, sent |-> sent,
     warned |-> warned, error |-> error]

\* lines 53-58: inverse_kinematics(px=self.current_goal[0], ...); subscripting
\* None raises TypeError and ends the callback
GoalCallbackIK ==
    /\ gcb.pc = "l53"
    /\ IF current_goal.tag = "set"
       THEN /\ gcb' = [gcb EXCEPT !.pc = "l60",
                         !.ik = inverse_kinematics(current_goal.val[1], current_goal.val[2],
                                                   current_goal.val[3], TRUE)]
            /\ UNCHANGED <<handled, cb_errors>>
       ELSE /\ gcb' = GcbIdle
            /\ cb_errors' = cb_errors \cup {"TypeError"}
            /\ handled' = Append(handled,
                    Handled(gcb.msg, EmptyResults, FALSE, <<>>, FALSE, TRUE))
    /\ UNCHANGED <<init_pc, current_goal, current_position, elbow_config, goal_sub,
                   pos_sub, goal_queue, pos_queue, goal_seen, pos_seen, pcb,
                   commands, published, goal_marker_index,
                   actual_marker_index, ik_vars, dh_vars>>

\* the loop of lines 65-70: the first solution of ik_results['valid'] whose
\* config equals self.elbow_config, as <<(theta1, theta2, theta3)>>, or <<>>
FirstMatch(valid, config) ==
    LET hits == {i \in 1..Len(valid) : valid[i].config = config}
    IN  IF hits = {} THEN <<>>
        ELSE LET i == CHOOSE k \in hits : \A h \in hits : k <= h
             IN  << <<valid[i].theta1, valid[i].theta2, valid[i].theta3>> >>

\* lines 60-85: unreachable -> warning; else the matching solution is sent with
\* move_all_joints and the goal marker published (self.current_goal[0] raises
\* TypeError when current_goal is None by then), or a warning is logged
GoalCallbackDispatch ==
    /\ gcb.pc = "l60"
    /\ LET valid_solution == IF gcb.ik.unreachable THEN <<>>
                             ELSE FirstMatch(gcb.ik.valid, elbow_config)
           marker_fails == valid_solution # <<>> /\ current_goal.tag # "set"
       IN  /\ commands' = commands \o valid_solution
           /\ handled' = Append(handled,
                    Handled(gcb.msg, gcb.ik, TRUE, valid_solution,
                            valid_solution = <<>>, marker_fails))
           /\ goal_marker_index' =
                    IF valid_solution # <<>> /\ ~marker_fails
                    THEN goal_marker_index + 1 ELSE goal_marker_index
           /\ cb_errors' = IF marker_fails THEN cb_errors \cup {"TypeError"}
                           ELSE cb_errors
    /\ gcb' = GcbIdle
    /\ UNCHANGED <<init_pc, current_goal, current_position, elbow_config, goal_sub,
                   pos_sub, goal_queue, pos_queue, goal_seen, pos_seen, pcb,
                   published, actual_marker_index, ik_vars, dh_vars>>

\* ---- position_callback (the /end_effector_real_pose thread)

\* lines 89-98: self.current_position = (msg.x, msg.y, msg.z); publish the
\* marker; self.actual_marker_index += 1
PositionCallbackUpdate ==
    /\ pcb.pc = "idle"
    /\ pos_queue # <<>>
    /\ pos_queue' = Tail(pos_queue)
    /\ current_position' = Value(Head(pos_queue))
    /\ actual_marker_index' = actual_marker_index + 1
    /\ pcb' = [pc |-> "l101"]
    /\ UNCHANGED <<init_pc, current_goal, elbow_config, goal_sub, pos_sub,
                   goal_queue, goal_seen, pos_seen, gcb, handled,
                   commands, cb_errors, published, goal_marker_index,
                   ik_vars, dh_vars>>

\* lines 101-103: "if self.current_goal:" reads the attribute; AttributeError
\* when __init__ has not assigned it and no goal_callback has either
PositionCallbackError ==
    /\ pcb.pc = "l101"
    /\ pcb' = PcbIdle
    /\ cb_errors' = IF current_goal.tag = "unassigned"
                    THEN cb_errors \cup {"AttributeError"} ELSE cb_errors
    /\ UNCHANGED <<init_pc, current_goal, current_position, elbow_config, goal_sub,
                   pos_sub, goal_queue, pos_queue, goal_seen, pos_seen, gcb, handled,
                   commands, published, goal_marker_index,
                   actual_marker_index, ik_vars, dh_vars>>

MoverNext ==
    \/ InitNode
    \/ SubscribeGoal
    \/ SubscribePosition
    \/ WaitGoalMessage
    \/ WaitPositionMessage
    \/ InitCurrentGoal
    \/ InitCurrentPosition
    \/ InitElbowConfig
    \/ \E msg \in GoalMsgs : PublishGoal(msg)
    \/ \E msg \in PosMsgs : PublishPosition(msg)
    \/ GoalCallbackSetGoal
    \/ GoalCallbackSetPolicy
    \/ GoalCallbackIK
    \/ GoalCallbackDispatch
    \/ PositionCallbackUpdate
    \/ PositionCallbackError

---------------------------------------------------------------------------
(* The specifications: one per program *)

\* the state before the first step; ik_target as given
Start(target) ==
    \* no call of inverse_kinematics made
    /\ ik_target = target
    /\ ik_res = NoCalls
    \* DHMatrixGenerator(): self.matrices = {}, self.simplified_matrices = {}
    /\ matrices = EmptyDict
    /\ simplified_matrices = EmptyDict
    /\ dh_prev = EmptyDict
    /\ dh_last = NoCall
    /\ dh_calls = 0
    \* the node's process starts: no attribute assigned, nothing subscribed
    /\ init_pc = "l13"
    /\ current_goal = Unassigned
    /\ current_position = Unassigned
    /\ elbow_config = ""
    /\ goal_sub = FALSE
    /\ pos_sub = FALSE
    /\ goal_queue = <<>>
    /\ pos_queue = <<>>
    /\ goal_seen = FALSE
    /\ pos_seen = FALSE
    /\ gcb = GcbIdle
    /\ pcb = PcbIdle
    /\ handled = <<>>
    /\ commands = <<>>
    /\ cb_errors = {}
    /\ published = [goal |-> 0, pos |-> 0]
    /\ goal_marker_index = 0
    /\ actual_marker_index = 0

\* inverse_kinematics called on any target of Targets
SpecIK == (\E target \in Targets : Start(target)) /\ [][IKNext]_vars

\* a DHMatrixGenerator and a sequence of calls of its methods
SpecDH == Start(<<0, 0, 0>>) /\ [][DHNext]_vars

\* the node: __init__, the publishers and the two callbacks
SpecMover == Start(<<0, 0, 0>>) /\ [][MoverNext]_vars

---------------------------------------------------------------------------
(* Properties of inverse_kinematics, under SpecIK *)

px == ik_target[1]
py == ik_target[2]
pz == ik_target[3]

\* how many times x occurs in the list s
Occurrences(s, x) == Cardinality({i \in 1..Len(s) : s[i] = x})

\* the lists s and t hold the same candidates, each as many times
SameCandidates(s, t) ==
    /\ Len(s) = Len(t)
    /\ \A x \in Range(s) \cup Range(t) : Occurrences(s, x) = Occurrences(t, x)

\* theta2 in [-pi/4, 3pi/4] and theta3 in [-3pi/4, 3pi/4], in degrees
WithinLimits(c) ==
    /\ -45 <= c.theta2 /\ c.theta2 <= 135
    /\ -135 <= c.theta3 /\ c.theta3 <= 135

\* every candidate the two passes of the branch loop build for the target
RawCandidates ==
    BranchCandidates(px, py, pz, 1) \o BranchCandidates(px, py, pz, -1)

\* C1 as stated: the flag is disjunctive over two branches that fail
\* separately, so there are targets for which the call returns
\* unreachable = true together with a non-empty validSolutions (one branch
\* failed, the other succeeded).  The existence is stated over all of Targets,
\* at the return of a call.
C1_SomeTargetFlaggedWithSolutions ==
    ik_res[TRUE].called =>
        \E t \in Targets :
            LET r == inverse_kinematics(t[1], t[2], t[3], TRUE)
            IN  r.unreachable /\ r.valid # <<>>

\* C1 amended: the flag is the disjunction of the two branches' |cos theta3| > 1
\* tests, but both branches compute the same cos theta3 (A enters as A**2), so
\* they fail together: whenever unreachable is true both lists are empty.
C1_UnreachableMeansNoSolutions ==
    \A jl \in BOOLEAN :
        ik_res[jl].called =>
            LET r == ik_res[jl].res
                plus == BranchUnreachable(px, py, pz, 1)
                minus == BranchUnreachable(px, py, pz, -1)
            IN  /\ r.unreachable <=> (plus \/ minus)
                /\ plus <=> minus
                /\ r.unreachable => (r.valid = <<>> /\ r.invalid = <<>>)

\* a call has returned with the flag set
C1_Witness ==
    ik_res[TRUE].called /\ ik_res[TRUE].res.unreachable

\* C2: with joint limits enforced, every candidate of a reachable branch is in
\* exactly one list, in valid iff theta2 and theta3 are within their (inclusive)
\* limits; none is dropped or duplicated, and there are 4 when both branches
\* are reachable.
C2_LimitsPartitionCandidates ==
    ik_res[TRUE].called =>
        LET r == ik_res[TRUE].res
        IN  /\ \A i \in 1..Len(r.valid) : WithinLimits(r.valid[i])
            /\ \A i \in 1..Len(r.invalid) : ~WithinLimits(r.invalid[i])
            /\ SameCandidates(r.valid \o r.invalid, RawCandidates)
            /\ (~BranchUnreachable(px, py, pz, 1) /\ ~BranchUnreachable(px, py, pz, -1))
                   => Len(r.valid) + Len(r.invalid) = 4

\* a reachable target with candidates in both lists, one of them on a limit
C2_Witness ==
    /\ ik_res[TRUE].called
    /\ ik_res[TRUE].res.invalid # <<>>
    /\ \E i \in 1..Len(ik_res[TRUE].res.valid) :
           ik_res[TRUE].res.valid[i].theta3 \in {-135, 135}

\* C3: for one target, the call with joint_limits disabled returns as valid
\* exactly the candidates the call with joint_limits enabled returns in valid
\* and invalid together, with an empty invalid list and the same flag.
C3_DisabledIsUnionOfEnabled ==
    (ik_res[TRUE].called /\ ik_res[FALSE].called) =>
        LET on == ik_res[TRUE].res
            off == ik_res[FALSE].res
        IN  /\ SameCandidates(off.valid, on.valid \o on.invalid)
            /\ off.invalid = <<>>
            /\ off.unreachable = on.unreachable

\* both calls made, and the limits did reject a candidate
C3_Witness ==
    /\ ik_res[TRUE].called /\ ik_res[FALSE].called
    /\ ik_res[TRUE].res.invalid # <<>>
    /\ ik_res[TRUE].res.valid # <<>>

\* C4 as stated: when A^2 + B^2 = 4 exactly (cos theta3 = 1), each reachable
\* branch contributes exactly one elbow solution, with theta3 = 0: the two
\* branches together give two candidates.
C4_OneElbowSolutionAtFullReach ==
    \A jl \in BOOLEAN :
        (ik_res[jl].called /\ CosTheta3(BranchA(px, py, 1), pz) = CosDen) =>
            LET r == ik_res[jl].res
                all == r.valid \o r.invalid
            IN  /\ Len(all) = 2
                /\ \A i \in 1..Len(all) : all[i].theta3 = 0

Sign(x) == IF x > 0 THEN 1 ELSE IF x < 0 THEN -1 ELSE 0

\* every candidate returned so far, by either call, in either list
ReturnedCandidates ==
    UNION {Range(ik_res[jl].res.valid) \cup Range(ik_res[jl].res.invalid) :
           jl \in BOOLEAN}

\* C8: every returned candidate carries exactly one of the four labels; its
\* first half is "plus" iff theta2 > 0 and its second half "plus" iff
\* theta3 > 0 (zero counts as minus), so candidates with the same signs of
\* theta2 and theta3 carry the same label whatever theta1, branch or list.
C8_LabelFromSigns ==
    /\ \A c \in ReturnedCandidates :
        /\ c.config \in {"plus-plus", "plus-minus", "minus-plus", "minus-minus"}
        /\ c.config \in {"plus-plus", "plus-minus"} <=> c.theta2 > 0
        /\ c.config \in {"plus-plus", "minus-plus"} <=> c.theta3 > 0
    /\ \A c, e \in ReturnedCandidates :
        (Sign(c.theta2) = Sign(e.theta2) /\ Sign(c.theta3) = Sign(e.theta3))
            => c.config = e.config

\* candidates with theta2 = 0 and with theta3 = 0 have been returned
C8_Witness ==
    /\ \E c \in ReturnedCandidates : c.theta2 = 0
    /\ \E c \in ReturnedCandidates : c.theta3 = 0

---------------------------------------------------------------------------
(* Properties of DHMatrixGenerator, under SpecDH *)

\* C5 as stated: apply_substitutions with a mapping that names an undeclared
\* matrix raises, and has then instantiated nothing: self.matrices is as it
\* was before the call, wherever the undeclared name stands in the mapping.
C5_UndeclaredNameLeavesMatricesAlone ==
    (dh_last.op = "apply" /\ \E name \in Range(dh_last.names) : name \notin DOMAIN dh_prev)
        => (dh_last.raised /\ matrices = dh_prev)

\* the names of generate_chain(n) were all declared in m and every link of the
\* chain instantiated
FullChain(m, n) ==
    /\ Range(generate_chain(n)) \subseteq DOMAIN m
    /\ \A j \in 1..n : m[MatrixName(j - 1, j)] # NoneVal

\* C6: after build_compound_matrices(N) on a fully declared and instantiated
\* chain, for every k in 2..N the compound A0k is the product of the links
\* A01, A12, ..., A(k-1,k) in this order, each once, which is A0(k-1) . A(k-1,k).
C6_CompoundIsOrderedProduct ==
    (dh_last.op = "build" /\ FullChain(dh_prev, dh_last.n)) =>
        \A k \in 2..dh_last.n :
            LET compound == matrices[MatrixName(0, k)]
                before == IF k = 2 THEN matrices[MatrixName(0, 1)]
                          ELSE matrices[MatrixName(0, k - 1)]
            IN  /\ Len(compound) = k
                /\ \A j \in 1..k : <<compound[j]>> = dh_prev[MatrixName(j - 1, j)]
                /\ compound = before \o matrices[MatrixName(k - 1, k)]

\* build_compound_matrices(3) has run on a full chain of three links
C6_Witness ==
    /\ dh_last.op = "build"
    /\ dh_last.n = 3
    /\ FullChain(dh_prev, 3)
    /\ Len(matrices["A03"]) = 3

\* for some k in 2..n the compound A0k is undeclared, or one of its links
\* A(j,j+1), j < k, is undeclared or not instantiated
MissingLink(m, n) ==
    \E k \in 2..n :
        \/ MatrixName(0, k) \notin DOMAIN m
        \/ \E j \in 0..(k - 1) :
              \/ MatrixName(j, j + 1) \notin DOMAIN m
              \/ m[MatrixName(j, j + 1)] = NoneVal

\* C7 as stated: build_compound_matrices(N) with a compound name or a link
\* missing signals a configuration error; it never returns normally.
C7_MissingLinkIsAnError ==
    (dh_last.op = "build" /\ MissingLink(dh_prev, dh_last.n)) => dh_last.raised

---------------------------------------------------------------------------
(* Properties of AntropomorphicEndEffectorMover, under SpecMover *)

\* the solutions of the list with the given label
Matching(valid, label) == SelectSeq(valid, LAMBDA c : c.config = label)

\* C9 as stated: handling a goal message sends at most one joint command; one
\* is sent iff the IK result of the message's target is not flagged
\* unreachable and its valid list holds a solution labelled as the message
\* requests, and the command is the first such solution.
C9_CommandIffRequestedSolution ==
    \A i \in 1..Len(handled) :
        LET h == handled[i]
            t == h.msg.ee_xy_theta
            r == inverse_kinematics(t[1], t[2], t[3], TRUE)
            m == Matching(r.valid, h.msg.elbow_policy)
        IN  /\ Len(h.sent) <= 1
            /\ h.sent # <<>> <=> (~r.unreachable /\ m # <<>>)
            /\ h.sent # <<>> =>
                   h.sent[1] = <<m[1].theta1, m[1].theta2, m[1].theta3>>

\* C10 as stated: no callback runs before __init__ has assigned the state:
\* position_callback never reads current_goal unassigned, and once
\* goal_callback has recorded a goal and an elbow policy they are not reset
\* to None and "plus" by __init__.
C10_InitBeforeCallbacks ==
    /\ "AttributeError" \notin cb_errors
    /\ (gcb.pc # "idle" \/ handled # <<>>) => current_goal.tag = "set"
    /\ (gcb.pc \in {"l53", "l60"} \/ handled # <<>>) => elbow_config \in Policies

=============================================================================
